---------------------------- MODULE Spec2Model ----------------------------
(***************************************************************************)
(* A model of perftracker's src/main.rs: the spreadsheet ingestion run     *)
(* (process_excel_file .. insert_fund_data), the funds / scheme_rates      *)
(* store, the in-memory VirtualTable with its search, and the refresh of   *)
(* the index held in AppState behind an RwLock.                            *)
(*                                                                         *)
(* Strings are sequences of characters; a character is a one-element       *)
(* token such as "A", " " or "-".  Two tokens stand for characters that    *)
(* take more than one byte in UTF-8: "U+00E9" (e acute, alphanumeric,      *)
(* 2 bytes) and "U+2013" (en dash, not alphanumeric, 3 bytes).             *)
(***************************************************************************)
EXTENDS Integers, Sequences, FiniteSets, TLC

(***************************************************************************)
(* Characters                                                              *)
(***************************************************************************)
UpperChars == <<"A","B","C","D","E","F","G","H","I","J","K","L","M",
                "N","O","P","Q","R","S","T","U","V","W","X","Y","Z">>
LowerChars == <<"a","b","c","d","e","f","g","h","i","j","k","l","m",
                "n","o","p","q","r","s","t","u","v","w","x","y","z">>
DigitChars == {"0","1","2","3","4","5","6","7","8","9"}

Range(f) == {f[i] : i \in DOMAIN f}

\* char::is_alphanumeric
is_alphanumeric(c) ==
  c \in Range(UpperChars) \cup Range(LowerChars) \cup DigitChars \cup {"U+00E9"}

\* char::is_whitespace
is_whitespace(c) == c \in {" "}

\* the number of bytes of one character in UTF-8 (str::len counts bytes)
len_utf8(c) == IF c = "U+00E9" THEN 2 ELSE IF c = "U+2013" THEN 3 ELSE 1

\* char::to_lowercase, one character
to_lowercase_char(c) ==
  IF c \in Range(UpperChars)
    THEN LowerChars[CHOOSE i \in DOMAIN UpperChars : UpperChars[i] = c]
    ELSE c

(***************************************************************************)
(* Strings (sequences of characters)                                       *)
(***************************************************************************)
Min(a, b) == IF a < b THEN a ELSE b
Max(a, b) == IF a < b THEN b ELSE a

\* str::len: the length in bytes
byte_len(s) ==
  LET RECURSIVE Sum(_)
      Sum(i) == IF i = 0 THEN 0 ELSE len_utf8(s[i]) + Sum(i - 1)
  IN Sum(Len(s))

\* chars().take(n).collect()
take(s, n) == SubSeq(s, 1, Min(n, Len(s)))

\* chars().skip(n).collect()
skip(s, n) == SubSeq(s, Min(n, Len(s)) + 1, Len(s))

\* str::to_lowercase
to_lowercase(s) == [i \in DOMAIN s |-> to_lowercase_char(s[i])]

\* chars().filter(p).collect()
RECURSIVE filter_alnum_ws(_)
filter_alnum_ws(s) ==
  IF s = <<>> THEN <<>>
  ELSE IF is_alphanumeric(Head(s)) \/ is_whitespace(Head(s))
         THEN <<Head(s)>> \o filter_alnum_ws(Tail(s))
         ELSE filter_alnum_ws(Tail(s))

\* p occurs in s at position i
matches_at(s, p, i) ==
  /\ i + Len(p) - 1 <= Len(s)
  /\ \A k \in 1..Len(p) : s[i + k - 1] = p[k]

\* str::contains
contains(s, p) == \E i \in 1..(Len(s) + 1) : matches_at(s, p, i)

\* str::replace(p, ""): every non-overlapping occurrence, left to right
RECURSIVE replace_empty(_, _)
replace_empty(s, p) ==
  IF s = <<>> \/ p = <<>> THEN s
  ELSE IF matches_at(s, p, 1)
         THEN replace_empty(skip(s, Len(p)), p)
         ELSE <<Head(s)>> \o replace_empty(Tail(s), p)

\* str::strip_suffix(p).unwrap_or(s)
strip_suffix(s, p) ==
  IF Len(p) <= Len(s) /\ matches_at(s, p, Len(s) - Len(p) + 1)
    THEN take(s, Len(s) - Len(p))
    ELSE s

\* str::split_whitespace: the maximal runs of non-whitespace characters
RECURSIVE split_whitespace(_)
split_whitespace(s) ==
  IF s = <<>> THEN <<>>
  ELSE IF is_whitespace(Head(s)) THEN split_whitespace(Tail(s))
  ELSE LET n == IF \E i \in 1..Len(s) : is_whitespace(s[i])
                  THEN (CHOOSE i \in 1..Len(s) :
                          /\ is_whitespace(s[i])
                          /\ \A j \in 1..(i - 1) : ~is_whitespace(s[j])) - 1
                  ELSE Len(s)
       IN <<take(s, n)>> \o split_whitespace(skip(s, n))

\* [&str]::join(" ")
RECURSIVE join_space(_)
join_space(words) ==
  IF words = <<>> THEN <<>>
  ELSE IF Len(words) = 1 THEN words[1]
  ELSE words[1] \o <<" ">> \o join_space(Tail(words))

\* str::trim
RECURSIVE trim(_)
trim(s) ==
  IF s = <<>> THEN s
  ELSE IF is_whitespace(Head(s)) THEN trim(Tail(s))
  ELSE IF is_whitespace(s[Len(s)]) THEN trim(take(s, Len(s) - 1))
  ELSE s

(***************************************************************************)
(* normalize_scheme_name: the canonical name                               *)
(***************************************************************************)
\* (mutant) a canonicalization that lowercases and filters but leaves the
\* whitespace as it is
normalize_without_collapse(scheme_name) ==
  filter_alnum_ws(to_lowercase(scheme_name))

normalize_scheme_name(scheme_name) ==
  trim(join_space(split_whitespace(filter_alnum_ws(to_lowercase(scheme_name)))))

(***************************************************************************)
(* clean_scheme_name.  A loop of the code that makes no progress never     *)
(* ends; the operator then yields Diverges instead of a string.            *)
(***************************************************************************)
Diverges == <<"#diverges">>

\* while the first character is not alphanumeric: name = chars().skip(1)
RECURSIVE trim_leading_special(_)
trim_leading_special(name) ==
  IF name = <<>> THEN name
  ELSE IF is_alphanumeric(Head(name)) THEN name
  ELSE trim_leading_special(skip(name, 1))

\* while the last character is not alphanumeric:
\*   name = chars().take(name.len() - 1), name.len() being the byte length
RECURSIVE trim_trailing_special(_)
trim_trailing_special(name) ==
  IF name = <<>> THEN name
  ELSE IF is_alphanumeric(name[Len(name)]) THEN name
  ELSE LET shorter == take(name, byte_len(name) - 1)
       IN IF shorter = name THEN Diverges
          ELSE trim_trailing_special(shorter)

\* name.trim().split_whitespace().collect().join(" ")
collapse_spaces(name) == join_space(split_whitespace(trim(name)))

global_remove ==
  << <<"-"," ","R","e","g"," ","-"," ","G","r","o","w","t","h">>,
     <<" ","-"," ","R","e","g"," ","-"," ","G","r","o","w","t","h">>,
     <<"-"," ","R","e","g"," ","-"," ","G","t","h">>,
     <<" ","-"," ","R","e","g"," ","-"," ","G","t","h">>,
     <<" ","-"," ","R","e","g"," ","-"," ","G"," ","P">>,
     <<"-"," ","R","e","g"," ","-"," ","G"," ","P">>,
     <<" ","-"," ","R","e","g"," ">>,
     <<"-"," ","R","e","g"," ">>,
     <<"-","R","e","g","-","G","r","o","w","t","h">> >>

suffixes ==
  << <<"-"," ","R","e","g"," ","-"," ","G","r","o","w","t","h">>,
     <<"-"," ","R","e","g"," ","-"," ","G","t","h">>,
     <<"-"," ","G","r","o","w","t","h">>,
     <<"-","R","e","g">>,
     <<"-","R","e","g"," ">>,
     <<"-","G","r","o","w","t","h">>,
     <<"G","r","o","w","t","h">>,
     <<"-"," ","R","e","g">>,
     <<"R","e","g","u","l","a","r">>,
     <<" ","R","e","g","u","l","a","r">>,
     <<"-"," ","R","e","g"," ","-"," ","G"," ","P">>,
     <<" ","-"," ","R","e","g">>,
     <<" ","-"," ","R","e","g"," ","-"," ","G"," ","P">>,
     <<" ","-"," ","R","e","g"," ","-"," ","G","r","o","w","t","h"," ","(","R","e","-","l","a","u","n","c","h","e","d">>,
     <<" ","-"," ","R","e","g","u","l","a","r">>,
     <<" ","-","R","e","g">>,
     <<" ","-"," ","R","e","g"," ">>,
     <<"-"," ","R","e","g","u","l","a","r">>,
     <<"-"," ","R","e","g","u","l","a","r"," ">>,
     <<" ","-"," ","R","e","g","u","l","a","r"," ">>,
     <<" ","-","R","e","g"," ">>,
     <<"-","R","e","g","-","G","r","o","w","t","h">> >>

\* for pattern in global_remove: name = name.replace(pattern, "")
RECURSIVE remove_globally(_, _)
remove_globally(name, i) ==
  IF i > Len(global_remove) THEN name
  ELSE remove_globally(replace_empty(name, global_remove[i]), i + 1)

\* for suffix in suffixes: name = name.strip_suffix(suffix).unwrap_or(name)
RECURSIVE strip_suffixes(_, _)
strip_suffixes(name, i) ==
  IF i > Len(suffixes) THEN name
  ELSE strip_suffixes(strip_suffix(name, suffixes[i]), i + 1)

clean_scheme_name(name) ==
  LET step1 == trim_trailing_special(trim_leading_special(name))
  IN IF step1 = Diverges THEN Diverges
     ELSE LET stripped == strip_suffixes(remove_globally(collapse_spaces(step1), 1), 1)
              step4 == trim_trailing_special(trim_leading_special(stripped))
          IN IF step4 = Diverges THEN Diverges ELSE collapse_spaces(step4)


(***************************************************************************)
(* Option, f32 and the cells of a sheet (calamine::Data)                   *)
(***************************************************************************)
None == [kind |-> "None"]
Some(x) == [kind |-> "Some", v |-> x]

\* f32 values: a finite number, an infinity or NaN
Finite(n) == [cls |-> "finite", n |-> n]
Infinite == [cls |-> "inf"]
NaN == [cls |-> "nan"]

\* Data::Float holds an f64: a finite number an f32 can hold, a finite number
\* beyond the f32 range ("huge"), an infinity or NaN
DFloat(f) == [kind |-> "Float", f |-> f]
Huge == [cls |-> "huge"]
DInt(i) == [kind |-> "Int", i |-> i]
DString(s) == [kind |-> "String", s |-> s]
DBool(b) == [kind |-> "Bool", b |-> b]
DError == [kind |-> "Error"]
DEmpty == [kind |-> "Empty"]

\* the decimal digits of a small natural number
RECURSIVE digits_of(_)
digits_of(n) ==
  LET d == <<"0","1","2","3","4","5","6","7","8","9">>
  IN IF n < 10 THEN <<d[n + 1]>> ELSE digits_of(n \div 10) \o <<d[(n % 10) + 1]>>

\* Data's Display (cell.to_string())
cell_to_string(cell) ==
  CASE cell.kind = "String" -> cell.s
    [] cell.kind = "Float" ->
         IF cell.f.cls = "finite" THEN digits_of(cell.f.n)
         ELSE IF cell.f.cls = "nan" THEN <<"N","a","N">>
         ELSE IF cell.f.cls = "inf" THEN <<"i","n","f">>
         ELSE <<"1","e","4","0">>
    [] cell.kind = "Int" -> digits_of(cell.i)
    [] cell.kind = "Bool" -> IF cell.b THEN <<"t","r","u","e">>
                                        ELSE <<"f","a","l","s","e">>
    [] cell.kind = "Error" -> <<"#","D","I","V","/","0","!">>
    [] cell.kind = "Empty" -> <<>>

\* the value of a string of decimal digits
RECURSIVE digits_value(_)
digits_value(s) ==
  IF s = <<>> THEN 0
  ELSE 10 * digits_value(take(s, Len(s) - 1))
       + (CHOOSE n \in 0..9 : digits_of(n) = <<s[Len(s)]>>)

\* str::parse::<f32>().ok(): decimal digits, and the words the f32 parser takes
\* for the non-finite values (in any letter case)
parse_f32(s) ==
  LET low == to_lowercase(s)
  IN IF s # <<>> /\ \A i \in DOMAIN s : s[i] \in DigitChars
       THEN Some(Finite(digits_value(s)))
     ELSE IF low = <<"n","a","n">> THEN Some(NaN)
     ELSE IF low \in {<<"i","n","f">>, <<"i","n","f","i","n","i","t","y">>}
       THEN Some(Infinite)
     ELSE None

\* f64 as f32
f64_as_f32(f) == IF f.cls = "huge" THEN Infinite ELSE f

\* parse_float_option(cell: Option<&Data>) -> Option<f32>
parse_float_option(cell) ==
  IF cell = None THEN None
  ELSE LET d == cell.v
       IN CASE d.kind = "Float" ->
                 IF d.f.cls \in {"finite", "huge"} THEN Some(f64_as_f32(d.f))
                 ELSE None
            [] d.kind = "Int" -> Some(Finite(d.i))
            [] OTHER ->
                 LET s == trim(cell_to_string(d))
                 IN IF s = <<>> \/ s = <<"N","/","A">> \/ s = <<"-">>
                      THEN None
                      ELSE parse_f32(s)

(***************************************************************************)
(* Sheets.  A range is a rectangular grid: a sequence of rows of equal     *)
(* length; get() is None outside it.                                       *)
(***************************************************************************)
height(range) == Len(range)
width(range) == IF range = <<>> THEN 0 ELSE Len(range[1])

\* Range::get((row, col)), both counted from 0
get(range, row, col) ==
  IF row < height(range) /\ col < width(range)
    THEN Some(range[row + 1][col + 1])
    ELSE None

HeaderScanRows == 15

\* find_header_row: Some(row index) or None for Err("Header row not found")
find_header_row(range) ==
  LET hit(row_idx) ==
        /\ get(range, row_idx, 0) # None
        /\ contains(to_lowercase(cell_to_string(get(range, row_idx, 0).v)),
                    <<"s","c","h","e","m","e"," ","n","a","m","e">>)
      rows == {r \in 0..(Min(HeaderScanRows, height(range)) - 1) : hit(r)}
  IN IF rows = {} THEN None
     ELSE Some(CHOOSE r \in rows : \A q \in rows : r <= q)

NumFields == <<"fund_size_apr25", "fund_size_may25", "latest_nav", "month_1",
               "months_3", "months_6", "ytd", "year_1", "years_2", "years_3",
               "years_5">>
NumColumns == <<2, 3, 4, 5, 6, 7, 8, 9, 10, 11, 13>>
FundFields == {"category", "scheme_name", "launch_date"} \cup Range(NumFields)

\* parse_fund_row: Some(FundData) or None
parse_fund_row(category, range, row_idx) ==
  IF get(range, row_idx, 0) = None THEN None
  ELSE LET scheme_name == cell_to_string(get(range, row_idx, 0).v)
           launch_date == IF get(range, row_idx, 1) = None THEN <<>>
                          ELSE cell_to_string(get(range, row_idx, 1).v)
       IN IF scheme_name = <<>> \/ launch_date = <<>> THEN None
          ELSE Some([f \in FundFields |->
                 CASE f = "category" -> category
                   [] f = "scheme_name" -> scheme_name
                   [] f = "launch_date" -> launch_date
                   [] OTHER ->
                        LET k == CHOOSE i \in DOMAIN NumFields : NumFields[i] = f
                        IN parse_float_option(get(range, row_idx, NumColumns[k]))])

\* extract_fund_data: Some(records) or None when the header row is missing
extract_fund_data(category, range) ==
  LET header_row_idx == find_header_row(range)
      RECURSIVE rows_from(_)
      rows_from(row_idx) ==
        IF row_idx >= height(range) THEN <<>>
        ELSE LET fund == parse_fund_row(category, range, row_idx)
             IN (IF fund = None THEN <<>> ELSE <<fund.v>>) \o rows_from(row_idx + 1)
  IN IF header_row_idx = None THEN None
     ELSE Some(rows_from(header_row_idx.v + 1))

\* (mutant) a deduplication that compares the names as they are written
remove_exact_duplicates(all_funds) ==
  LET RECURSIVE keep(_, _)
      keep(i, seen_names) ==
        IF i > Len(all_funds) THEN <<>>
        ELSE IF all_funds[i].scheme_name \in seen_names
          THEN keep(i + 1, seen_names)
          ELSE <<all_funds[i]>>
               \o keep(i + 1, seen_names \cup {all_funds[i].scheme_name})
  IN keep(1, {})

\* remove_all_duplicates: the first record of each canonical name
remove_all_duplicates(all_funds) ==
  LET RECURSIVE keep(_, _)
      keep(i, seen_names) ==
        IF i > Len(all_funds) THEN <<>>
        ELSE LET normalized == normalize_scheme_name(all_funds[i].scheme_name)
             IN IF normalized \in seen_names
                  THEN keep(i + 1, seen_names)
                  ELSE <<all_funds[i]>> \o keep(i + 1, seen_names \cup {normalized})
  IN keep(1, {})

skip_sheets == {"Main Page", "Summary", "Glossary", "Load", "Disclaimer"}

\* the sheet loop of process_excel_file: Some(all_funds), or None when a
\* sheet's extract_fund_data fails (the ? returns the error from the run).
\* A sheet is [name, range]; range is None when worksheet_range fails.
RECURSIVE collect_sheets(_)
collect_sheets(sheets) ==
  IF sheets = <<>> THEN Some(<<>>)
  ELSE LET sheet == Head(sheets)
           rest == collect_sheets(Tail(sheets))
       IN IF sheet.name \in skip_sheets \/ sheet.range = None THEN rest
          ELSE LET records == extract_fund_data(sheet.name, sheet.range.v)
               IN IF records = None \/ rest = None THEN None
                  ELSE Some(records.v \o rest.v)

(***************************************************************************)
(* The funds table (CREATE TABLE funds): a set of rows, each with the id   *)
(* the SERIAL sequence gave it.  created_at is never read and is left out. *)
(***************************************************************************)
RowFields == FundFields \cup {"id"}

\* UPDATE funds SET <every column but id and scheme_name> WHERE scheme_name = $1
update_funds(tbl, cleaned_scheme_name, fund) ==
  {IF row.scheme_name = cleaned_scheme_name
     THEN [f \in RowFields |->
             IF f \in {"id", "scheme_name"} THEN row[f] ELSE fund[f]]
     ELSE row : row \in tbl}

\* the number of rows the UPDATE affects
update_result(tbl, cleaned_scheme_name) ==
  Cardinality({row \in tbl : row.scheme_name = cleaned_scheme_name})

\* (mutant) a funds table without the uniqueness constraint
no_constraint(tbl, scheme_name) == TRUE

\* CONSTRAINT unique_scheme_name UNIQUE (scheme_name): may a row of this name
\* be inserted
unique_scheme_name(tbl, scheme_name) ==
  \A row \in tbl : row.scheme_name # scheme_name

\* (mutant) an INSERT whose column list leaves out fund_size_apr25
insert_row_without_column(id, cleaned_scheme_name, fund) ==
  [f \in RowFields |->
     CASE f = "id" -> id
       [] f = "scheme_name" -> cleaned_scheme_name
       [] f = "fund_size_apr25" -> None
       [] OTHER -> fund[f]]

\* the row of INSERT INTO funds (...) VALUES ($1, ..., $14)
insert_row(id, cleaned_scheme_name, fund) ==
  [f \in RowFields |->
     CASE f = "id" -> id
       [] f = "scheme_name" -> cleaned_scheme_name
       [] OTHER -> fund[f]]

(***************************************************************************)
(* The scheme_rates table (CREATE TABLE scheme_rates) and the join of      *)
(* build_virtual_table                                                     *)
(***************************************************************************)
RateFields == {"arn", "company", "scheme_category", "brokerage_type",
               "start_date", "end_date", "base_year_1", "base_year_2",
               "base_year_3"}

\* CURRENT_DATE of the store when the join runs; dates are day numbers
CurrentDate == 10

is_ascii_alphanumeric(c) ==
  c \in Range(UpperChars) \cup Range(LowerChars) \cup DigitChars

\* LOWER(REGEXP_REPLACE(scheme_name, '[^a-zA-Z0-9\s]', '', 'g'))
RECURSIVE regexp_remove(_)
regexp_remove(s) ==
  IF s = <<>> THEN <<>>
  ELSE IF is_ascii_alphanumeric(Head(s)) \/ is_whitespace(Head(s))
         THEN <<Head(s)>> \o regexp_remove(Tail(s))
         ELSE regexp_remove(Tail(s))

sql_join_key(scheme_name) == to_lowercase(regexp_remove(scheme_name))

\* the ON condition of the LEFT JOIN.  A nullable column (is_approved,
\* base_year_1..3) holds None or Some(value); end_date is NOT NULL, so the
\* query's "sr.end_date IS NULL" is never true.
join_on(f, sr) ==
  /\ sql_join_key(f.scheme_name) = sql_join_key(sr.scheme_name)
  /\ (sr.is_approved = None \/ sr.is_approved = Some(TRUE))
  /\ sr.end_date >= CurrentDate

\* one row of the join's result as build_virtual_table reads it into a
\* CombinedSchemeData; sr is None for a fund without a matching rate row
combined_data(f, sr) ==
  [c \in {"fund_id", "fund_category", "launch_date", "rate_id", "scheme_name",
          "normalized_name"} \cup Range(NumFields) \cup RateFields |->
     CASE c = "fund_id" -> Some(f.id)
       [] c = "fund_category" -> Some(f.category)
       [] c = "launch_date" -> Some(f.launch_date)
       [] c \in Range(NumFields) -> f[c]
       [] c = "rate_id" -> IF sr = None THEN None ELSE Some(sr.v.id)
       [] c \in {"base_year_1", "base_year_2", "base_year_3"} ->
            IF sr = None THEN None ELSE sr.v[c]
       [] c \in RateFields -> IF sr = None THEN None ELSE Some(sr.v[c])
       [] c = "scheme_name" -> f.scheme_name
       [] c = "normalized_name" -> normalize_scheme_name(f.scheme_name)]

\* the rows of the LEFT JOIN, as a set: the store returns them in any order
joined_rows(funds_tbl, rates_tbl) ==
  UNION {LET matching == {sr \in rates_tbl : join_on(f, sr)}
         IN IF matching = {} THEN {combined_data(f, None)}
            ELSE {combined_data(f, Some(sr)) : sr \in matching}
         : f \in funds_tbl}

\* the orders in which the elements of a set can come
orderings(S) ==
  {p \in [1..Cardinality(S) -> S] : \A x \in S : \E i \in DOMAIN p : p[i] = x}

(***************************************************************************)
(* VirtualTable                                                            *)
(***************************************************************************)
\* VirtualTable::new()
new_virtual_table == [data |-> <<>>, name_index |-> <<>>]

\* (mutant) an add_record that takes the position after the push of the record
add_record_after_push(vt, record) ==
  LET index == Len(vt.data) + 1
      normalized == normalize_scheme_name(record.scheme_name)
      keys == DOMAIN vt.name_index \cup {normalized}
  IN [data |-> Append(vt.data, record),
      name_index |->
        [k \in keys |->
           IF k = normalized
             THEN (IF k \in DOMAIN vt.name_index THEN vt.name_index[k] ELSE <<>>)
                  \o <<index>>
             ELSE vt.name_index[k]]]

\* VirtualTable::add_record; positions count from 0 as in the code
add_record(vt, record) ==
  LET index == Len(vt.data)
      normalized == normalize_scheme_name(record.scheme_name)
      keys == DOMAIN vt.name_index \cup {normalized}
  IN [data |-> Append(vt.data, record),
      name_index |->
        [k \in keys |->
           IF k = normalized
             THEN (IF k \in DOMAIN vt.name_index THEN vt.name_index[k] ELSE <<>>)
                  \o <<index>>
             ELSE vt.name_index[k]]]

\* the for loop of build_virtual_table over the rows the query returned
RECURSIVE add_records(_, _)
add_records(vt, rows) ==
  IF rows = <<>> THEN vt
  ELSE add_records(add_record(vt, Head(rows)), Tail(rows))

\* (mutant) an exact match pass that takes every position under the key
exact_pass_unlimited(vt, normalized_query, limit) ==
  IF normalized_query \in DOMAIN vt.name_index
    THEN LET indices == vt.name_index[normalized_query]
         IN [i \in 1..Len(indices) |-> vt.data[indices[i] + 1]]
    ELSE <<>>

\* the exact match pass of search: the positions under the key, up to limit
exact_pass(vt, normalized_query, limit) ==
  IF normalized_query \in DOMAIN vt.name_index
    THEN LET indices == vt.name_index[normalized_query]
         IN [i \in 1..Min(limit, Len(indices)) |-> vt.data[indices[i] + 1]]
    ELSE <<>>

\* (mutant) a push that does not look for the name among the results
RECURSIVE push_partial_unchecked(_, _, _, _)
push_partial_unchecked(vt, indices, limit, results) ==
  IF indices = <<>> \/ Len(results) >= limit THEN results
  ELSE push_partial_unchecked(vt, Tail(indices), limit,
         Append(results, vt.data[Head(indices) + 1]))

\* for &idx in indices of one key: push unless a result has the same
\* normalized_name, until limit
RECURSIVE push_partial(_, _, _, _)
push_partial(vt, indices, limit, results) ==
  IF indices = <<>> \/ Len(results) >= limit THEN results
  ELSE LET record == vt.data[Head(indices) + 1]
       IN push_partial(vt, Tail(indices), limit,
            IF \E i \in DOMAIN results :
                 results[i].normalized_name = record.normalized_name
              THEN results
              ELSE Append(results, record))

\* (mutant) a partial match pass that takes every key, not only the keys
\* that contain the query
RECURSIVE partial_pass_any_name(_, _, _, _, _)
partial_pass_any_name(vt, normalized_query, limit, names, results) ==
  IF names = <<>> \/ Len(results) >= limit THEN results
  ELSE partial_pass_any_name(vt, normalized_query, limit, Tail(names),
         IF Head(names) # normalized_query
           THEN push_partial(vt, vt.name_index[Head(names)], limit, results)
           ELSE results)

\* the partial match pass: the keys of name_index in the order the HashMap
\* iterates them
RECURSIVE partial_pass(_, _, _, _, _)
partial_pass(vt, normalized_query, limit, names, results) ==
  IF names = <<>> \/ Len(results) >= limit THEN results
  ELSE LET name == Head(names)
       IN partial_pass(vt, normalized_query, limit, Tail(names),
            IF contains(name, normalized_query) /\ name # normalized_query
              THEN push_partial(vt, vt.name_index[name], limit, results)
              ELSE results)

\* VirtualTable::search; names is the iteration order of name_index
search(vt, query, limit, names) ==
  LET normalized_query == normalize_scheme_name(query)
  IN partial_pass(vt, normalized_query, limit, names,
                  exact_pass(vt, normalized_query, limit))

(***************************************************************************)
(* Workbooks the runs ingest                                               *)
(***************************************************************************)
HeaderRow == <<DString(<<"S","c","h","e","m","e"," ","N","a","m","e">>),
               DString(<<"L","a","u","n","c","h"," ","D","a","t","e">>),
               DString(<<"N","A","V">>)>>
LaunchDate == DString(<<"2","0","2","0">>)
Row_A == <<DString(<<"A">>), LaunchDate, DFloat(Finite(1))>>
Row_AGrowth == <<DString(<<"A"," ","G","r","o","w","t","h">>), LaunchDate,
                 DFloat(Finite(2))>>
Row_a == <<DString(<<"a">>), LaunchDate, DInt(3)>>
Row_AB == <<DString(<<"A"," ","B">>), LaunchDate, DString(<<"4">>)>>
Row_NoName == <<DString(<<>>), LaunchDate, DFloat(Finite(1))>>
Row_NoDate == <<DString(<<"C">>), DEmpty, DFloat(Finite(1))>>
Row_ADash == <<DString(<<"A","U+2013">>), LaunchDate, DFloat(Finite(1))>>

\* a sheet as wide as the columns parse_fund_row reads (0 to 13), its row
\* holding one cell of each kind in the numeric columns
WideHeader ==
  [col \in 1..14 |-> IF col <= 3 THEN HeaderRow[col] ELSE DEmpty]
Row_Cells ==
  <<DString(<<"A"," ","B">>), LaunchDate,
    DString(<<"N","a","N">>), DString(<<"i","n","f">>), DFloat(Huge),
    DBool(TRUE), DError, DEmpty, DString(<<"N","/","A">>), DFloat(NaN),
    DFloat(Infinite), DString(<<" ","5"," ">>), DString(<<"x">>),
    DString(<<"I","n","f","i","n","i","t","y">>)>>

Sheet(name, range) == [name |-> name, range |-> range]

Workbooks ==
  { <<Sheet("Equity", Some(<<HeaderRow, Row_A, Row_AGrowth, Row_AB>>))>>,
    <<Sheet("Equity", Some(<<HeaderRow, Row_AGrowth>>)),
      Sheet("Debt", Some(<<HeaderRow, Row_a, Row_NoName, Row_NoDate>>))>>,
    <<Sheet("Summary", Some(<<Row_AB>>)),
      Sheet("Equity", Some(<<HeaderRow, Row_a>>)),
      Sheet("Debt", Some(<<HeaderRow, Row_A>>))>>,
    <<Sheet("Equity", Some(<<HeaderRow, Row_A>>)),
      Sheet("Notes", Some(<<Row_AB>>))>>,
    <<Sheet("Equity", Some(<<HeaderRow, Row_A, Row_ADash>>))>>,
    <<Sheet("Equity", None),
      Sheet("Debt", Some(<<HeaderRow, HeaderRow, Row_AB>>))>>,
    <<Sheet("Equity", Some(<<HeaderRow, Row_a, Row_AB>>)),
      Sheet("Debt", Some(<<HeaderRow, Row_A, Row_a>>))>>,
    <<Sheet("Equity", Some(<<WideHeader, Row_Cells>>))>> }

(***************************************************************************)
(* State                                                                   *)
(***************************************************************************)
\* the upload requests served in one behaviour
MaxRuns == 3

\* the upload requests that can be in progress together
RunIds == {1, 2}

VARIABLES
  funds,     \* the rows of the funds table
  next_id,   \* the next value of the funds.id sequence
  run,       \* the ingestion run (process_excel_file) of each upload in progress
  uploads,   \* the number of upload requests received so far
  last,      \* the latest run that returned: its workbook, result and store
  rates,     \* the rows of the scheme_rates table
  table,     \* the VirtualTable (in AppState: the value behind the RwLock)
  found,     \* the latest call of the function under study (VirtualTable::search,
             \* a function of names) and what it returned
  lock,      \* the RwLock of AppState: who holds it for reading, for writing
  refresh,   \* the calls of refresh_virtual_table, one per caller
  searcher,  \* the search requests in progress (search_schemes)
  refreshes, \* the number of /refresh requests received so far
  searches,  \* the number of /search requests received so far
  table_build, \* which build the table behind the lock is (0: the initial one)
  reads,     \* the rows each build so far has read from the store, in the
             \* order in which the builds read it
  swapped    \* the builds whose swap has completed

store_vars == <<funds, next_id, rates>>
ingest_vars == <<run, uploads, last>>
index_vars == <<table, found>>
serve_vars == <<lock, refresh, searcher, refreshes, searches, table_build,
                reads, swapped>>
vars == <<funds, next_id, run, uploads, last, rates, table, found, lock,
          refresh, searcher, refreshes, searches, table_build, reads, swapped>>

\* results of process_excel_file / insert_fund_data
Ok(count) == [ok |-> TRUE, count |-> count]
Err(e) == [ok |-> FALSE, err |-> e]

IdleRun ==
  [pc |-> "idle", sheets |-> <<>>, funds |-> <<>>, idx |-> 0, inserted |-> 0,
   result |-> None, log |-> <<>>, start_funds |-> {}, end_funds |-> {}]

\* the run ends: process_excel_file returns result
finish(st, result, tbl) ==
  [st EXCEPT !.pc = "done", !.result = Some(result), !.end_funds = tbl]

\* the for loop of insert_fund_data goes on to the next fund, or ends and
\* returns Ok(inserted)
next_fund(st, tbl) ==
  IF st.idx + 1 > Len(st.funds)
    THEN finish(st, Ok(st.inserted), tbl)
    ELSE [st EXCEPT !.pc = "update", !.idx = st.idx + 1]

\* (mutant) the error of the INSERT returned from the run, as with a ?
insert_error_returned(st, tbl) == finish(st, Err("store"), tbl)

\* Err(e) of the INSERT: the warn! arm, the loop goes on
insert_failed(st, tbl) == next_fund(st, tbl)

\* (mutant) a fund updated or inserted that leaves the count as it is
fund_not_counted(st, tbl) == next_fund(st, tbl)

\* Ok(rows) of the INSERT, and the else branch of update_result == 0
count_fund(st, tbl) == next_fund([st EXCEPT !.inserted = st.inserted + 1], tbl)

event(op, idx, outcome) == [op |-> op, idx |-> idx, outcome |-> outcome]

(***************************************************************************)
(* process_excel_file, one action per await                                *)
(***************************************************************************)
\* open_workbook_auto(file_path)?
open_workbook(r, sheets, ok) ==
  /\ run[r].pc = "idle"
  /\ uploads < MaxRuns
  /\ uploads' = uploads + 1
  /\ run' = [run EXCEPT ![r] =
       IF ok THEN [@ EXCEPT !.pc = "connect", !.sheets = sheets,
                            !.start_funds = funds]
             ELSE finish([@ EXCEPT !.sheets = sheets, !.start_funds = funds],
                         Err("workbook"), funds)]
  /\ UNCHANGED <<funds, next_id, last, rates, index_vars, serve_vars>>

\* get_postgres_client().await?, then the sheet loop and remove_all_duplicates,
\* up to the first await of insert_fund_data
connect_and_extract(r, ok) ==
  /\ run[r].pc = "connect"
  /\ run' = [run EXCEPT ![r] =
       IF ~ok THEN finish(@, Err("connect"), funds)
       ELSE LET all_funds == collect_sheets(@.sheets)
            IN IF all_funds = None
                 THEN finish(@, Err("Header row not found"), funds)
                 ELSE next_fund([@ EXCEPT !.funds = remove_all_duplicates(all_funds.v),
                                          !.idx = 0, !.inserted = 0], funds)]
  /\ UNCHANGED <<funds, next_id, uploads, last, rates, index_vars, serve_vars>>

\* clean_scheme_name, then client.execute("UPDATE funds ...").await?
execute_update(r, ok) ==
  /\ run[r].pc = "update"
  /\ UNCHANGED <<uploads, last, rates, index_vars, serve_vars>>
  /\ LET st == run[r]
         fund == st.funds[st.idx]
         cleaned_scheme_name == clean_scheme_name(fund.scheme_name)
     IN IF cleaned_scheme_name = Diverges
          THEN /\ run' = [run EXCEPT ![r].pc = "hung"]
               /\ UNCHANGED <<funds, next_id>>
        ELSE IF ~ok
          THEN /\ run' = [run EXCEPT ![r] =
                    finish([st EXCEPT !.log = Append(@, event("update", st.idx, "error"))],
                           Err("store"), funds)]
               /\ UNCHANGED <<funds, next_id>>
        ELSE /\ funds' = update_funds(funds, cleaned_scheme_name, fund)
             /\ run' = [run EXCEPT ![r] =
                  IF update_result(funds, cleaned_scheme_name) = 0
                    THEN [st EXCEPT !.pc = "insert",
                                    !.log = Append(@, event("update", st.idx, "none"))]
                    ELSE count_fund([st EXCEPT
                                       !.log = Append(@, event("update", st.idx, "updated"))],
                                    funds')]
             /\ UNCHANGED next_id

\* client.execute("INSERT INTO funds ...").await, and the match on its result
execute_insert(r, ok) ==
  /\ run[r].pc = "insert"
  /\ UNCHANGED <<uploads, last, rates, index_vars, serve_vars>>
  /\ LET st == run[r]
         fund == st.funds[st.idx]
         cleaned_scheme_name == clean_scheme_name(fund.scheme_name)
     IN IF ~ok
          THEN /\ run' = [run EXCEPT ![r] =
                    insert_failed([st EXCEPT !.log = Append(@, event("insert", st.idx, "error"))],
                                  funds)]
               /\ UNCHANGED <<funds, next_id>>
        ELSE IF ~unique_scheme_name(funds, cleaned_scheme_name)
          THEN /\ run' = [run EXCEPT ![r] =
                    insert_failed([st EXCEPT !.log = Append(@, event("insert", st.idx, "unique"))],
                                  funds)]
               /\ next_id' = next_id + 1
               /\ UNCHANGED funds
        ELSE /\ funds' = funds \cup {insert_row(next_id, cleaned_scheme_name, fund)}
             /\ next_id' = next_id + 1
             /\ run' = [run EXCEPT ![r] =
                  count_fund([st EXCEPT !.log = Append(@, event("insert", st.idx, "inserted"))],
                             funds')]

\* no await of the run failed: neither the workbook, nor the connection, nor
\* an UPDATE or INSERT for a reason other than the uniqueness constraint
no_store_failure(st) ==
  /\ st.result # None
  /\ st.result.v.ok
  /\ \A i \in DOMAIN st.log : st.log[i].outcome # "error"

\* process_excel_file has returned to upload_excel: the locals of the run are
\* dropped
run_returns(r) ==
  /\ run[r].pc = "done"
  /\ last' = Some([sheets |-> run[r].sheets, result |-> run[r].result.v,
                   no_failure |-> no_store_failure(run[r]),
                   start_funds |-> run[r].start_funds,
                   end_funds |-> run[r].end_funds])
  /\ run' = [run EXCEPT ![r] = IdleRun]
  /\ UNCHANGED <<funds, next_id, uploads, rates, index_vars, serve_vars>>

(***************************************************************************)
(* SpecIngest: upload requests served one after the other (one ingestion   *)
(* run is assumed exclusive), each on any workbook, the store failing at   *)
(* any await                                                               *)
(***************************************************************************)
\* no other request is in progress
exclusive(r) == r = 1 /\ \A q \in RunIds : run[q].pc = "idle"

\* the store after main: initialize_postgres_tables has dropped and created
\* both tables
InitStore ==
  /\ funds = {}
  /\ next_id = 1
  /\ rates = {}

RefreshIds == {"upload", "refresh"}
SearchIds == {1, 2}

IdleRefresh ==
  [pc |-> "idle", new_table |-> new_virtual_table, build |-> 0, result |-> None,
   start_table |-> new_virtual_table, start_build |-> 0]
IdleSearch ==
  [pc |-> "idle", query |-> <<>>, results |-> <<>>, build |-> 0,
   from_build |-> <<>>, swapped_before |-> {}]

\* AppState::new(), then main's initial build from the empty store (or, if it
\* fails, the empty table new() made); no request yet
InitServer ==
  /\ table = new_virtual_table
  /\ found = None
  /\ lock = [readers |-> {}, writer |-> None]
  /\ refresh = [r \in RefreshIds |-> IdleRefresh]
  /\ searcher = [s \in SearchIds |-> IdleSearch]
  /\ refreshes = 0
  /\ searches = 0
  /\ table_build = 0
  /\ reads = <<>>
  /\ swapped = {}

InitIngest ==
  /\ InitStore
  /\ run = [r \in RunIds |-> IdleRun]
  /\ uploads = 0
  /\ last = None
  /\ InitServer

NextIngest ==
  \E r \in RunIds :
    \/ \E sheets \in Workbooks, ok \in BOOLEAN :
         exclusive(r) /\ open_workbook(r, sheets, ok)
    \/ \E ok \in BOOLEAN : connect_and_extract(r, ok)
    \/ \E ok \in BOOLEAN : execute_update(r, ok)
    \/ \E ok \in BOOLEAN : execute_insert(r, ok)
    \/ run_returns(r)

SpecIngest == InitIngest /\ [][NextIngest]_vars

(***************************************************************************)
(* Properties of the ingestion run                                         *)
(***************************************************************************)
\* what a row holds besides its id: scheme_name and the non-key fields
Contents(tbl) == {[f \in FundFields |-> row[f]] : row \in tbl}

\* the run of r is the second of two runs on the same workbook, one right
\* after the other, and no await of either failed
second_of_two_runs(r) ==
  /\ run[r].pc = "done"
  /\ last # None
  /\ last.v.sheets = run[r].sheets
  /\ last.v.no_failure
  /\ no_store_failure(run[r])

\* C5: ingesting the same workbook twice in sequence, with no store failure,
\* leaves the funds table with the same number of rows and the same row
\* contents as ingesting it once.
C5_SecondIngestChangesNothing ==
  \A r \in RunIds :
    second_of_two_runs(r) =>
      /\ Cardinality(run[r].end_funds) = Cardinality(last.v.end_funds)
      /\ Contents(run[r].end_funds) = Contents(last.v.end_funds)

\* a second run over a workbook with two funds to persist, the first run
\* having started from a store that already held rows and changed it
C5_Witness ==
  \E r \in RunIds :
    /\ second_of_two_runs(r)
    /\ Len(run[r].funds) >= 2
    /\ last.v.start_funds # {}
    /\ Contents(last.v.start_funds) # Contents(last.v.end_funds)

\* C6 (as claimed): the funds table never holds two rows whose scheme names
\* have the same canonical name.
C6_OneRowPerCanonicalName ==
  \A x, y \in funds :
    normalize_scheme_name(x.scheme_name) = normalize_scheme_name(y.scheme_name)
      => x = y

failed_insert(e) == e.op = "insert" /\ e.outcome \in {"error", "unique"}
counted(e) == e.outcome \in {"updated", "inserted"}

\* C7: a failed INSERT is not counted, the loop goes on to the next fund (or,
\* after the last fund, the run returns Ok with the count), and the count
\* is the number of funds updated or inserted.
C7_InsertFailureIsSkipped ==
  \A r \in RunIds :
    LET st == run[r]
        n == Len(st.log)
    IN /\ st.pc \in {"update", "insert", "hung", "done"} /\ st.funds # <<>> =>
            st.inserted = Cardinality({i \in 1..n : counted(st.log[i])})
       /\ \A i \in 1..n :
            failed_insert(st.log[i]) =>
              LET k == st.log[i].idx
              IN IF k = Len(st.funds)
                   THEN st.pc = "done" /\ st.result = Some(Ok(st.inserted))
                 ELSE IF i = n
                   THEN st.pc = "update" /\ st.idx = k + 1
                 ELSE st.log[i + 1].op = "update" /\ st.log[i + 1].idx = k + 1

\* a run that returned Ok after the INSERT of its first fund failed on the
\* uniqueness constraint or otherwise, and that then persisted its second
C7_Witness ==
  \E r \in RunIds :
    /\ run[r].pc = "done"
    /\ run[r].result.v.ok
    /\ Len(run[r].log) >= 3
    /\ failed_insert(run[r].log[2])
    /\ counted(run[r].log[Len(run[r].log)])

\* a sheet that is not skipped and has no header row
headerless(sheet) ==
  /\ sheet.name \notin skip_sheets
  /\ sheet.range # None
  /\ find_header_row(sheet.range.v) = None

\* C8 (as claimed): a run over a workbook with a sheet that has no header
\* row, whose workbook and store did not fail, returns success.
C8_MissingHeaderIsNotFatal ==
  \A r \in RunIds :
    /\ run[r].pc = "done"
    /\ \E i \in DOMAIN run[r].sheets : headerless(run[r].sheets[i])
    /\ run[r].result.v \notin {Err("workbook"), Err("connect"), Err("store")}
    => run[r].result.v.ok

\* C9 (as claimed): a run that fails because the workbook or the store is
\* unavailable leaves the funds table as it was when the run started.
C9_NoPartialCommit ==
  \A r \in RunIds :
    /\ run[r].pc = "done"
    /\ run[r].result.v \in {Err("workbook"), Err("connect"), Err("store")}
    => run[r].end_funds = run[r].start_funds


(***************************************************************************)
(* SpecSearch: a VirtualTable filled by add_record, as build_virtual_table *)
(* fills it, and searched with any query, limit and iteration order of     *)
(* name_index                                                              *)
(***************************************************************************)
\* the records one table holds at most, and the largest limit searched with
MaxRecords == 3
MaxLimit == 3

IndexNames == {<<"A">>, <<"a">>, <<"A"," ","B">>, <<"A","-","B">>}
Queries == {<<"A">>, <<"a"," ","b">>, <<"A","B">>, <<"C">>, <<>>}

\* a row of funds with this id and name
sample_fund(id, scheme_name) ==
  [f \in RowFields |->
     CASE f = "id" -> id
       [] f = "scheme_name" -> scheme_name
       [] f = "category" -> "Equity"
       [] f = "launch_date" -> <<"2","0","2","0">>
       [] OTHER -> None]

\* build_virtual_table reads one more row of its query into the table
build_adds_record(scheme_name) ==
  /\ Len(table.data) < MaxRecords
  /\ table' = add_record(table,
                combined_data(sample_fund(Len(table.data) + 1, scheme_name), None))
  /\ found' = None
  /\ UNCHANGED <<store_vars, ingest_vars, serve_vars>>

\* virtual_table.search(query, limit)
search_table(query, limit, names) ==
  /\ found' = Some([query |-> query, limit |-> limit,
                    results |-> search(table, query, limit, names)])
  /\ UNCHANGED <<store_vars, ingest_vars, table, serve_vars>>

InitSearch ==
  /\ InitStore
  /\ run = [r \in RunIds |-> IdleRun]
  /\ uploads = 0
  /\ last = None
  /\ InitServer

NextSearch ==
  \/ \E scheme_name \in IndexNames : build_adds_record(scheme_name)
  \/ \E query \in Queries, limit \in 0..MaxLimit,
        names \in orderings(DOMAIN table.name_index) :
       search_table(query, limit, names)

SpecSearch == InitSearch /\ [][NextSearch]_vars

(***************************************************************************)
(* Properties of VirtualTable::search                                      *)
(***************************************************************************)
canonical_name(record) == normalize_scheme_name(record.scheme_name)

\* the records of data whose canonical name is key, in stored position order
RECURSIVE records_named(_, _)
records_named(data, key) ==
  IF data = <<>> THEN <<>>
  ELSE (IF canonical_name(Head(data)) = key THEN <<Head(data)>> ELSE <<>>)
       \o records_named(Tail(data), key)

\* C10: search returns first the records whose canonical name equals the
\* canonical query, in stored position order (as many as limit allows), then
\* only records whose canonical name contains the canonical query and
\* differs from it; with an exact match and limit >= 1 the first result is
\* an exact match.
C10_ExactFirstThenSubstring ==
  found # None =>
    LET key == normalize_scheme_name(found.v.query)
        results == found.v.results
        exact == records_named(table.data, key)
        k == Min(found.v.limit, Len(exact))
    IN /\ Len(results) >= k
       /\ \A i \in 1..k : results[i] = exact[i]
       /\ \A i \in (k + 1)..Len(results) :
            /\ contains(canonical_name(results[i]), key)
            /\ canonical_name(results[i]) # key
            /\ results[i] \in Range(table.data)
       /\ (exact # <<>> /\ found.v.limit >= 1 => canonical_name(results[1]) = key)

\* a search that returned two exact matches followed by a substring match
C10_Witness ==
  /\ found # None
  /\ Len(found.v.results) = 3
  /\ canonical_name(found.v.results[1]) = normalize_scheme_name(found.v.query)
  /\ canonical_name(found.v.results[2]) = normalize_scheme_name(found.v.query)
  /\ canonical_name(found.v.results[3]) # normalize_scheme_name(found.v.query)


(***************************************************************************)
(* Spec: the server.  Upload requests (one at a time) ingest a workbook    *)
(* and then refresh the index, /refresh requests refresh it, /search       *)
(* requests search it; every await is a step of its own and may fail where *)
(* the code lets it fail.                                                  *)
(***************************************************************************)
\* the limit search_schemes passes to search
SearchLimit == 20

\* the requests (uploads, refreshes and searches) served in one behaviour
MaxRequests == 3

\* the workbooks uploaded to the server and the queries searched for
UploadWorkbooks == {<<Sheet("Equity", Some(<<HeaderRow, Row_A, Row_AB>>))>>}
SearchQueries == {<<"A">>}

\* RwLock::read() returns when no writer holds the lock.  std leaves it to the
\* platform whether a reader also waits behind a waiting writer; letting it in
\* allows every behaviour either policy has.
read_lock_free(lk) == lk.writer = None

\* (mutant) a write() that does not wait for the readers
write_lock_despite_readers(lk) == lk.writer = None

\* RwLock::write() returns when nobody holds the lock
write_lock_free(lk) == lk.readers = {} /\ lk.writer = None

\* refresh_virtual_table(&state) is called
called_refresh ==
  [IdleRefresh EXCEPT !.pc = "connect", !.start_table = table,
                      !.start_build = table_build]

\* POST /refresh arrives: refresh_virtual_table_endpoint
refresh_request ==
  /\ refresh["refresh"].pc = "idle"
  /\ uploads + refreshes + searches < MaxRequests
  /\ refreshes' = refreshes + 1
  /\ refresh' = [refresh EXCEPT !["refresh"] = called_refresh]
  /\ UNCHANGED <<store_vars, ingest_vars, index_vars, lock, searcher, searches,
                 table_build, reads, swapped>>

\* (mutant) a refresh that takes the write lock before it builds
refresh_connect_locked(r, ok) ==
  /\ refresh[r].pc = "connect"
  /\ write_lock_free(lock)
  /\ lock' = [lock EXCEPT !.writer = Some(r)]
  /\ refresh' = [refresh EXCEPT ![r] =
       IF ok THEN [@ EXCEPT !.pc = "query"]
             ELSE [@ EXCEPT !.pc = "done", !.result = Some(Err("connect"))]]
  /\ UNCHANGED <<store_vars, ingest_vars, index_vars, searcher, refreshes,
                 searches, table_build, reads, swapped>>

\* get_postgres_client().await? in refresh_virtual_table
refresh_connect(r, ok) ==
  /\ refresh[r].pc = "connect"
  /\ refresh' = [refresh EXCEPT ![r] =
       IF ok THEN [@ EXCEPT !.pc = "query"]
             ELSE [@ EXCEPT !.pc = "done", !.result = Some(Err("connect"))]]
  /\ UNCHANGED <<store_vars, ingest_vars, index_vars, lock, searcher, refreshes,
                 searches, table_build, reads, swapped>>

\* (mutant) a build that fills the table behind the lock in place
refresh_build_in_place(r, ok, rows) ==
  /\ refresh[r].pc = "query"
  /\ refresh' = [refresh EXCEPT ![r] =
       IF ok THEN [@ EXCEPT !.pc = "write",
                            !.new_table = add_records(new_virtual_table, rows),
                            !.build = Len(reads) + 1]
             ELSE [@ EXCEPT !.pc = "done", !.result = Some(Err("query"))]]
  /\ reads' = IF ok THEN Append(reads, Range(rows)) ELSE reads
  /\ table' = IF ok THEN add_records(new_virtual_table, rows)
                    ELSE new_virtual_table
  /\ UNCHANGED <<store_vars, ingest_vars, found, lock, searcher, refreshes,
                 searches, table_build, swapped>>

\* build_virtual_table(&client).await?: the query reads the store, the loop
\* fills a new table from its rows
refresh_build(r, ok, rows) ==
  /\ refresh[r].pc = "query"
  /\ refresh' = [refresh EXCEPT ![r] =
       IF ok THEN [@ EXCEPT !.pc = "write",
                            !.new_table = add_records(new_virtual_table, rows),
                            !.build = Len(reads) + 1]
             ELSE [@ EXCEPT !.pc = "done", !.result = Some(Err("query"))]]
  /\ reads' = IF ok THEN Append(reads, Range(rows)) ELSE reads
  /\ UNCHANGED <<store_vars, ingest_vars, index_vars, lock, searcher, refreshes,
                 searches, table_build, swapped>>

\* state.virtual_table.write().unwrap()
refresh_write_lock(r) ==
  /\ refresh[r].pc = "write"
  /\ write_lock_free(lock)
  /\ lock' = [lock EXCEPT !.writer = Some(r)]
  /\ refresh' = [refresh EXCEPT ![r].pc = "assign"]
  /\ UNCHANGED <<store_vars, ingest_vars, index_vars, searcher, refreshes,
                 searches, table_build, reads, swapped>>

\* *virtual_table = new_table; Ok(()) and the guard is dropped
refresh_swap(r) ==
  /\ refresh[r].pc = "assign"
  /\ table' = refresh[r].new_table
  /\ table_build' = refresh[r].build
  /\ swapped' = swapped \cup {refresh[r].build}
  /\ lock' = [lock EXCEPT !.writer = None]
  /\ refresh' = [refresh EXCEPT ![r] =
       [@ EXCEPT !.pc = "done", !.result = Some([ok |-> TRUE])]]
  /\ UNCHANGED <<store_vars, ingest_vars, found, searcher, refreshes, searches,
                 reads>>

\* refresh_virtual_table_endpoint answers: after Ok it reads data.len() under
\* the read lock
refresh_responds ==
  /\ refresh["refresh"].pc = "done"
  /\ refresh["refresh"].result.v.ok => read_lock_free(lock)
  /\ refresh' = [refresh EXCEPT !["refresh"] = IdleRefresh]
  /\ UNCHANGED <<store_vars, ingest_vars, index_vars, lock, searcher, refreshes,
                 searches, table_build, reads, swapped>>

\* POST /upload arrives: upload_excel calls process_excel_file
upload_request(sheets, ok) ==
  /\ uploads + refreshes + searches < MaxRequests
  /\ open_workbook(1, sheets, ok)

\* the Ok(count) arm of upload_excel calls refresh_virtual_table
upload_refreshes ==
  /\ run[1].pc = "done"
  /\ run[1].result.v.ok
  /\ run' = [run EXCEPT ![1].pc = "refresh"]
  /\ refresh' = [refresh EXCEPT !["upload"] = called_refresh]
  /\ UNCHANGED <<store_vars, uploads, last, index_vars, lock, searcher,
                 refreshes, searches, table_build, reads, swapped>>

\* upload_excel answers: an error after a failed run, success after the
\* refresh has returned (Ok, or Err which is only logged)
upload_responds ==
  /\ \/ run[1].pc = "done" /\ ~run[1].result.v.ok
     \/ run[1].pc = "refresh" /\ refresh["upload"].pc = "done"
  /\ run' = [run EXCEPT ![1] = IdleRun]
  /\ refresh' = [refresh EXCEPT !["upload"] = IdleRefresh]
  /\ UNCHANGED <<store_vars, uploads, last, index_vars, lock, searcher,
                 refreshes, searches, table_build, reads, swapped>>

\* GET /search?q=query arrives: search_schemes; the request is served in the
\* first slot that is free
search_request(s, query) ==
  /\ searcher[s].pc = "idle"
  /\ \A q \in SearchIds : q < s => searcher[q].pc # "idle"
  /\ uploads + refreshes + searches < MaxRequests
  /\ searches' = searches + 1
  /\ searcher' = [searcher EXCEPT ![s] =
       [IdleSearch EXCEPT !.pc = "read", !.query = query,
                          !.swapped_before = swapped]]
  /\ UNCHANGED <<store_vars, ingest_vars, index_vars, lock, refresh, refreshes,
                 table_build, reads, swapped>>

\* state.virtual_table.read().unwrap(), then the exact match pass of search
search_exact(s) ==
  /\ searcher[s].pc = "read"
  /\ read_lock_free(lock)
  /\ lock' = [lock EXCEPT !.readers = @ \cup {s}]
  /\ LET results == exact_pass(table, normalize_scheme_name(searcher[s].query),
                               SearchLimit)
     IN searcher' = [searcher EXCEPT ![s] =
          [@ EXCEPT !.pc = "partial", !.results = results,
                    !.build = table_build,
                    !.from_build = [i \in DOMAIN results |-> table_build]]]
  /\ UNCHANGED <<store_vars, ingest_vars, index_vars, refresh, refreshes,
                 searches, table_build, reads, swapped>>

\* the partial match pass of search; search returns and the guard is dropped
search_partial(s, names) ==
  /\ searcher[s].pc = "partial"
  /\ lock' = [lock EXCEPT !.readers = @ \ {s}]
  /\ LET results == partial_pass(table, normalize_scheme_name(searcher[s].query),
                                 SearchLimit, names, searcher[s].results)
     IN searcher' = [searcher EXCEPT ![s] =
          [@ EXCEPT !.pc = "done", !.results = results,
                    !.from_build = [i \in DOMAIN results |->
                       IF i <= Len(searcher[s].results)
                         THEN searcher[s].from_build[i] ELSE table_build]]]
  /\ UNCHANGED <<store_vars, ingest_vars, index_vars, refresh, refreshes,
                 searches, table_build, reads, swapped>>

\* search_schemes answers with the results
search_responds(s) ==
  /\ searcher[s].pc = "done"
  /\ searcher' = [searcher EXCEPT ![s] = IdleSearch]
  /\ UNCHANGED <<store_vars, ingest_vars, index_vars, lock, refresh, refreshes,
                 searches, table_build, reads, swapped>>

Init ==
  /\ InitStore
  /\ run = [r \in RunIds |-> IdleRun]
  /\ uploads = 0
  /\ last = None
  /\ InitServer

Next ==
  \/ \E sheets \in UploadWorkbooks, ok \in BOOLEAN : upload_request(sheets, ok)
  \/ \E ok \in BOOLEAN : connect_and_extract(1, ok)
  \/ \E ok \in BOOLEAN : execute_update(1, ok)
  \/ \E ok \in BOOLEAN : execute_insert(1, ok)
  \/ upload_refreshes
  \/ upload_responds
  \/ refresh_request
  \/ refresh_responds
  \/ \E r \in RefreshIds :
       \/ \E ok \in BOOLEAN : refresh_connect(r, ok)
       \/ \E ok \in BOOLEAN, rows \in orderings(joined_rows(funds, rates)) :
            refresh_build(r, ok, rows)
       \/ refresh_write_lock(r)
       \/ refresh_swap(r)
  \/ \E s \in SearchIds :
       \/ \E query \in SearchQueries : search_request(s, query)
       \/ search_exact(s)
       \/ \E names \in orderings(DOMAIN table.name_index) : search_partial(s, names)
       \/ search_responds(s)

Spec == Init /\ [][Next]_vars

(***************************************************************************)
(* Properties of the server                                                *)
(***************************************************************************)
\* C1: the records one search returns all come from one build of the index,
\* however the search interleaves with refreshes.
C1_SearchSeesOneBuild ==
  \A s \in SearchIds :
    \A i, j \in DOMAIN searcher[s].from_build :
      searcher[s].from_build[i] = searcher[s].from_build[j]

\* C1 witness: a search has made its exact pass and returned a record of the
\* table, and a refresh holding a different table waits for the write lock
C1_Witness ==
  \E s \in SearchIds, r \in RefreshIds :
    /\ searcher[s].pc = "partial"
    /\ searcher[s].results # <<>>
    /\ refresh[r].pc = "write"
    /\ refresh[r].new_table # table

\* the rows a build read from the store; build 0 is the initial build, of the
\* store the startup has just emptied
rows_read(build) == IF build = 0 THEN {} ELSE reads[build]

\* C2: a search that starts after a refresh has completed its swap reads that
\* refresh's build or a build that read the store later (a build that read
\* the same rows earlier is let pass as well).
C2_SearchSeesCompletedRefresh ==
  \A s \in SearchIds :
    searcher[s].pc = "done" =>
      \A build \in searcher[s].swapped_before :
        \/ searcher[s].build >= build
        \/ rows_read(searcher[s].build) = rows_read(build)

\* the step in which the refresh of r fails
refresh_fails(r) ==
  /\ refresh[r].pc # "done"
  /\ refresh'[r].pc = "done"
  /\ ~refresh'[r].result.v.ok

\* C3 as stated: when a refresh fails, the index is the index that was served
\* when the refresh started.
C3_IndexAsBeforeRefreshStarted ==
  [][\A r \in RefreshIds : refresh_fails(r) => table' = refresh[r].start_table]_vars

\* C3 amended: a refresh that fails has not changed the index; the index is
\* the one served when the refresh started unless another refresh has
\* completed its swap since.
C3_FailedRefreshChangesNothing ==
  [][\A r \in RefreshIds :
       refresh_fails(r) =>
         /\ table' = table
         /\ table_build' = table_build
         /\ table_build = refresh[r].start_build => table' = refresh[r].start_table]_vars

\* C3 witness: a refresh has failed while the index held records
C3_Witness ==
  \E r \in RefreshIds :
    /\ refresh[r].pc = "done"
    /\ ~refresh[r].result.v.ok
    /\ table.data # <<>>
    /\ table = refresh[r].start_table

\* C4: the write lock is held only by a refresh that has built its table and
\* is replacing the old one; while refreshes connect and build, searches can
\* take the read lock.
C4_WriteLockOnlyForSwap ==
  /\ lock.writer # None =>
       \E r \in RefreshIds : lock.writer = Some(r) /\ refresh[r].pc = "assign"
  /\ (\A r \in RefreshIds : refresh[r].pc # "assign") => read_lock_free(lock)

\* C4 witness: every searcher holds the read lock while a refresh is building
C4_Witness ==
  /\ lock.readers = SearchIds
  /\ \E r \in RefreshIds : refresh[r].pc = "query"

(***************************************************************************)
(* SpecIndex: a VirtualTable filled through the public add_record with     *)
(* records as the caller made them (normalized_name is a public field the  *)
(* caller sets), and searched                                              *)
(***************************************************************************)
GivenNames == {<<"A">>, <<"A"," ","B">>, <<"a"," ","b">>}

\* the normalized_name a caller may give a record: what build_virtual_table
\* gives it, or something else
given_normalized_names(scheme_name) ==
  {normalize_scheme_name(scheme_name), <<"x">>}

\* virtual_table.add_record(record) with a record made by the caller
add_given_record(scheme_name, normalized_name) ==
  /\ Len(table.data) < MaxRecords
  /\ table' = add_record(table,
       [combined_data(sample_fund(Len(table.data) + 1, scheme_name), None)
          EXCEPT !.normalized_name = normalized_name])
  /\ found' = None
  /\ UNCHANGED <<store_vars, ingest_vars, serve_vars>>

NextIndex ==
  \/ \E scheme_name \in GivenNames :
       \E normalized_name \in given_normalized_names(scheme_name) :
         add_given_record(scheme_name, normalized_name)
  \/ \E query \in Queries, limit \in 0..MaxLimit,
        names \in orderings(DOMAIN table.name_index) :
       search_table(query, limit, names)

SpecIndex == InitSearch /\ [][NextIndex]_vars

\* the results of the latest search that the substring pass added: those after
\* the exact matches
substring_results ==
  LET key == normalize_scheme_name(found.v.query)
      exact == Min(found.v.limit, Len(records_named(table.data, key)))
  IN (exact + 1)..Len(found.v.results)

\* no record the substring pass added has the canonical name of a record
\* before it in the result
no_repeated_canonical_name ==
  \A i \in substring_results :
    \A j \in 1..(i - 1) :
      canonical_name(found.v.results[i]) # canonical_name(found.v.results[j])

\* C11 as stated: in every result of search, for every index add_record can
\* make, a record added by the substring pass never has the canonical name of
\* a record already in the result.
C11_NoRepeatedNameInAnyIndex ==
  found # None => no_repeated_canonical_name

\* C11 amended: the same, for an index whose records all have the
\* normalized_name build_virtual_table gives them,
\* normalize_scheme_name(scheme_name).
C11_NoRepeatedNameInBuiltIndex ==
  (/\ found # None
   /\ \A i \in DOMAIN table.data :
        table.data[i].normalized_name = canonical_name(table.data[i]))
  => no_repeated_canonical_name

\* C11 witness: the index holds two records of one canonical name, both with
\* the normalized_name of a build, the name contains the query, and the search
\* had room for both but returned one
C11_Witness ==
  /\ found # None
  /\ \A i \in DOMAIN table.data :
       table.data[i].normalized_name = canonical_name(table.data[i])
  /\ \E i, j \in DOMAIN table.data :
       /\ i < j
       /\ canonical_name(table.data[i]) = canonical_name(table.data[j])
       /\ canonical_name(table.data[i]) # normalize_scheme_name(found.v.query)
       /\ contains(canonical_name(table.data[i]),
                   normalize_scheme_name(found.v.query))
       /\ table.data[i] \in Range(found.v.results)
  /\ Len(found.v.results) < found.v.limit

(***************************************************************************)
(* SpecBuild: the store as build_virtual_table finds it.  Ingestion has    *)
(* inserted funds; scheme_rates, which the program only reads, holds the   *)
(* rows the store's other clients inserted; then one build reads the join. *)
(***************************************************************************)
\* the rows of scheme_rates at most
MaxRates == 2

StoredNames == {<<"A">>, <<"A"," ","B">>}
RateNames == {<<"A">>, <<"a">>, <<"A"," "," ","B">>}

\* a row of scheme_rates; the columns the model does not vary are fixed
rate_row(id, scheme_name, is_approved, end_date) ==
  [id |-> id, scheme_name |-> scheme_name, is_approved |-> is_approved,
   end_date |-> end_date, start_date |-> 1, arn |-> "ARN",
   company |-> "Company", scheme_category |-> "Equity",
   brokerage_type |-> "Trail", base_year_1 |-> Some(Finite(1)),
   base_year_2 |-> None, base_year_3 |-> None]

\* INSERT INTO funds by insert_fund_data: a row of a name not yet stored
fund_stored(scheme_name) ==
  /\ reads = <<>>
  /\ unique_scheme_name(funds, scheme_name)
  /\ funds' = funds \cup {sample_fund(next_id, scheme_name)}
  /\ next_id' = next_id + 1
  /\ UNCHANGED <<rates, ingest_vars, index_vars, lock, refresh, searcher,
                 refreshes, searches, table_build, reads, swapped>>

\* another client of the store inserts a row into scheme_rates
rate_stored(scheme_name, is_approved, end_date) ==
  /\ reads = <<>>
  /\ Cardinality(rates) < MaxRates
  /\ rates' = rates \cup {rate_row(Cardinality(rates) + 1, scheme_name,
                                   is_approved, end_date)}
  /\ UNCHANGED <<funds, next_id, ingest_vars, index_vars, lock, refresh,
                 searcher, refreshes, searches, table_build, reads, swapped>>

\* build_virtual_table: the query, then the loop over its rows
table_built(rows) ==
  /\ reads = <<>>
  /\ reads' = <<Range(rows)>>
  /\ table' = add_records(new_virtual_table, rows)
  /\ UNCHANGED <<store_vars, ingest_vars, found, lock, refresh, searcher,
                 refreshes, searches, table_build, swapped>>

\* the process is stopped and started again: main runs
\* initialize_postgres_tables (DROP and CREATE of both tables), then the
\* initial build, of the store it has just emptied
process_restarts ==
  /\ funds' = {}
  /\ next_id' = 1
  /\ rates' = {}
  /\ table' = new_virtual_table
  /\ reads' = <<>>
  /\ UNCHANGED <<ingest_vars, found, lock, refresh, searcher, refreshes,
                 searches, table_build, swapped>>

NextBuild ==
  \/ \E scheme_name \in StoredNames : fund_stored(scheme_name)
  \/ \E scheme_name \in RateNames, is_approved \in {None, Some(TRUE), Some(FALSE)},
        end_date \in {CurrentDate - 1, CurrentDate} :
       rate_stored(scheme_name, is_approved, end_date)
  \/ \E rows \in orderings(joined_rows(funds, rates)) : table_built(rows)
  \/ process_restarts

SpecBuild == InitSearch /\ [][NextBuild]_vars

\* the records of the built table for the fund of this id
records_of_fund(id) ==
  {i \in DOMAIN table.data : table.data[i].fund_id = Some(id)}

\* C12: a build produces exactly one record per row of funds, and a fund with
\* no matching rate row appears once with all its rate fields null.
C12_OneRecordPerFund ==
  reads # <<>> =>
    /\ Len(table.data) = Cardinality(funds)
    /\ \A f \in funds : Cardinality(records_of_fund(f.id)) = 1
    /\ \A f \in funds :
         (\A sr \in rates : ~join_on(f, sr)) =>
           \A i \in records_of_fund(f.id) :
             /\ table.data[i].rate_id = None
             /\ \A c \in RateFields : table.data[i][c] = None

\* the row of scheme_rates with this id
rate_of(id) == CHOOSE sr \in rates : sr.id = id

\* C13: no record of a built table carries the fields of a rate row that is
\* not approved (its flag false or unset) or whose end date is before the
\* date of the build.
C13_OnlyApprovedUnexpiredRates ==
  reads # <<>> =>
    \A i \in DOMAIN table.data :
      table.data[i].rate_id # None =>
        /\ rate_of(table.data[i].rate_id.v).is_approved = Some(TRUE)
        /\ rate_of(table.data[i].rate_id.v).end_date >= CurrentDate

(***************************************************************************)
(* Properties of the ingestion run, continued                              *)
(***************************************************************************)
\* the positions of all_funds that hold the first record of their canonical
\* name
first_seen(all_funds) ==
  {i \in DOMAIN all_funds :
     \A j \in 1..(i - 1) :
       normalize_scheme_name(all_funds[j].scheme_name)
         # normalize_scheme_name(all_funds[i].scheme_name)}

\* the records a run pooled from its sheets, for a run past the sheet loop
pooled(r) == collect_sheets(run[r].sheets).v

\* remove_all_duplicates has just returned to the run: the loop of
\* insert_fund_data is at its first record
deduplicated(r) == run[r].pc = "update" /\ run[r].log = <<>>

\* C14: the output of remove_all_duplicates is the subsequence of its input
\* made of the first record of each canonical name, in input order, every
\* record unchanged.
C14_FirstSeenRetention ==
  \A r \in RunIds :
    deduplicated(r) =>
      LET kept == first_seen(pooled(r))
      IN /\ Len(run[r].funds) = Cardinality(kept)
         /\ \A i \in kept :
              run[r].funds[Cardinality({k \in kept : k <= i})] = pooled(r)[i]

\* C14 witness: a run whose pooled records repeat a canonical name after a
\* record of another name, and whose deduplicated list is shorter
C14_Witness ==
  \E r \in RunIds :
    /\ deduplicated(r)
    /\ Len(run[r].funds) < Len(pooled(r))
    /\ \E i \in DOMAIN pooled(r) :
         /\ i \notin first_seen(pooled(r))
         /\ (i - 1) \in first_seen(pooled(r))
         /\ normalize_scheme_name(pooled(r)[i - 1].scheme_name)
              # normalize_scheme_name(pooled(r)[i].scheme_name)

\* the records of a run for which the UPDATE affected a row or the INSERT
\* succeeded, and those whose INSERT failed
processed(st) ==
  {k \in DOMAIN st.funds :
     \E i \in DOMAIN st.log : st.log[i].idx = k /\ counted(st.log[i])}
insert_failures(st) ==
  {k \in DOMAIN st.funds :
     \E i \in DOMAIN st.log : st.log[i].idx = k /\ failed_insert(st.log[i])}

\* C15: the count insert_fund_data returns is the number of records whose
\* UPDATE affected a row or whose INSERT succeeded: each of them adds one, a
\* record whose INSERT failed adds nothing, and every counted record has its
\* row in the store.
C15_CountIsUpdatedPlusInserted ==
  \A r \in RunIds :
    LET st == run[r]
    IN (st.pc = "done" /\ st.result.v.ok) =>
         /\ st.result.v.count = Cardinality(processed(st))
         /\ processed(st) \cap insert_failures(st) = {}
         /\ processed(st) \cup insert_failures(st) = DOMAIN st.funds
         /\ \A k \in processed(st) :
              \E row \in funds :
                row.scheme_name = clean_scheme_name(st.funds[k].scheme_name)

\* C15 witness: a run returned a count of two or more for records of which
\* one was updated, one inserted and one failed to insert
C15_Witness ==
  \E r \in RunIds :
    LET st == run[r]
    IN /\ st.pc = "done"
       /\ st.result.v.ok
       /\ st.result.v.count >= 2
       /\ insert_failures(st) # {}
       /\ \E i, j \in DOMAIN st.log :
            st.log[i].outcome = "updated" /\ st.log[j].outcome = "inserted"

\* a step in which the program has acted: it changes state that only the
\* program writes (the funds table, its id sequence, the index, the builds)
program_step ==
  funds' # funds \/ next_id' # next_id \/ table' # table \/ reads' # reads

\* C16: no operation of the program (startup, ingestion, refresh, search)
\* changes the contents of scheme_rates.
C16_ProgramLeavesRates ==
  [][program_step => rates' = rates]_vars

\* C17: no record is extracted from a row whose scheme name is empty, whose
\* scheme name is a repeated header (lowercased, it contains "scheme name")
\* or whose launch date is empty.
C17_NoRecordFromFilteredRow ==
  \A r \in RunIds :
    deduplicated(r) =>
      \A i \in DOMAIN run[r].funds :
        /\ run[r].funds[i].scheme_name # <<>>
        /\ run[r].funds[i].launch_date # <<>>
        /\ ~contains(to_lowercase(run[r].funds[i].scheme_name),
                     <<"s","c","h","e","m","e"," ","n","a","m","e">>)

\* C18: every numeric field parse_float_option has filled is absent (None) or
\* a finite number, never NaN or an infinity.
C18_AbsentOrFinite ==
  \A r \in RunIds :
    deduplicated(r) =>
      \A i \in DOMAIN run[r].funds :
        \A f \in Range(NumFields) :
          \/ run[r].funds[i][f] = None
          \/ /\ run[r].funds[i][f].kind = "Some"
             /\ run[r].funds[i][f].v.cls = "finite"

(***************************************************************************)
(* SpecNames: one of the functions of names (normalize_scheme_name,        *)
(* clean_scheme_name) applied to a name put together from a few parts      *)
(***************************************************************************)
\* the parts one name is put together from, at most
MaxParts == 3

NameParts ==
  {<<"A">>, <<"b">>, <<" ">>, <<" ", " ">>, <<"-">>,
   <<"G","r","o","w","t","h">>, <<"U+00E9">>}

\* the names made of n parts
RECURSIVE names_of(_)
names_of(n) ==
  IF n = 0 THEN {<<>>}
  ELSE {name \o part : name \in names_of(n - 1), part \in NameParts}

Names == UNION {names_of(n) : n \in 0..MaxParts}

\* normalize_scheme_name(name) is called
name_normalized(name) ==
  /\ found = None
  /\ found' = Some([op |-> "normalize_scheme_name", name |-> name,
                    result |-> normalize_scheme_name(name)])
  /\ UNCHANGED <<store_vars, ingest_vars, table, serve_vars>>

\* clean_scheme_name(name) is called
name_cleaned(name) ==
  /\ found = None
  /\ found' = Some([op |-> "clean_scheme_name", name |-> name,
                    result |-> clean_scheme_name(name)])
  /\ UNCHANGED <<store_vars, ingest_vars, table, serve_vars>>

NextNames ==
  \/ \E name \in Names : name_normalized(name)
  \/ \E name \in Names : name_cleaned(name)

SpecNames == InitSearch /\ [][NextNames]_vars

\* C19: cleaning a cleaned name gives the same name.
C19_CleaningIsStable ==
  (/\ found # None
   /\ found.v.op = "clean_scheme_name"
   /\ found.v.result # Diverges)
  => clean_scheme_name(found.v.result) = found.v.result

\* a canonical name: alphanumeric characters that lowercasing leaves as they
\* are, in words separated by single spaces, no space first or last
is_canonical(s) ==
  /\ \A i \in DOMAIN s :
       \/ is_alphanumeric(s[i]) /\ to_lowercase_char(s[i]) = s[i]
       \/ s[i] = " " /\ 1 < i /\ i < Len(s) /\ s[i + 1] # " "

\* C20: canonicalizing a canonical name gives the same name, and a canonical
\* name holds only lowercase alphanumeric characters separated by single
\* spaces, with no space first or last.
C20_CanonicalizationIsProjection ==
  (found # None /\ found.v.op = "normalize_scheme_name") =>
    /\ normalize_scheme_name(found.v.result) = found.v.result
    /\ is_canonical(found.v.result)

\* C20 witness: a name with an upper case letter and two spaces between its
\* words has been canonicalized to two words
C20_Witness ==
  /\ found # None
  /\ found.v.op = "normalize_scheme_name"
  /\ \E i \in DOMAIN found.v.name : found.v.name[i] \in Range(UpperChars)
  /\ \E i \in DOMAIN found.v.name :
       i < Len(found.v.name) /\ found.v.name[i] = " " /\ found.v.name[i + 1] = " "
  /\ \E i \in DOMAIN found.v.result : found.v.result[i] = " "

(***************************************************************************)
(* Properties of VirtualTable::search, continued                           *)
(***************************************************************************)
\* C21: for every index, query and limit (limit 0 and a query whose
\* canonical name is empty included), search returns at most limit records.
C21_AtMostLimitRecords ==
  found # None => Len(found.v.results) <= found.v.limit

\* C21 witness: a search with limit 0 or with a query whose canonical name is
\* empty, over an index that holds more matching records of distinct
\* normalized_name than limit allows, has returned limit records
C21_Witness ==
  /\ found # None
  /\ found.v.limit = 0 \/ normalize_scheme_name(found.v.query) = <<>>
  /\ Len(found.v.results) = found.v.limit
  /\ Cardinality({table.data[i].normalized_name : i \in
       {j \in DOMAIN table.data :
          contains(canonical_name(table.data[j]),
                   normalize_scheme_name(found.v.query))}}) > found.v.limit

(***************************************************************************)
(* Properties of the build, continued                                      *)
(***************************************************************************)
\* a rate row eligible by the claim and by the query alike: approved, and its
\* end date not before the date of the build
eligible(sr) == sr.is_approved = Some(TRUE) /\ sr.end_date >= CurrentDate

\* the built table holds a record that joins this fund with this rate row
joined(f, sr) ==
  \E i \in DOMAIN table.data :
    table.data[i].fund_id = Some(f.id) /\ table.data[i].rate_id = Some(sr.id)

\* C22: the build joins a stored fund row with an eligible rate row exactly
\* when normalize_scheme_name gives their names the same canonical name;
\* names that differ only in runs of whitespace are joined.
C22_JoinOnCanonicalName ==
  reads # <<>> =>
    \A f \in funds, sr \in rates :
      eligible(sr) =>
        (joined(f, sr) <=>
           normalize_scheme_name(f.scheme_name) = normalize_scheme_name(sr.scheme_name))

(***************************************************************************)
(* Properties of the functions of names, continued                         *)
(***************************************************************************)
\* C23: clean_scheme_name terminates on every name: both loops that trim the
\* trailing characters make progress in every iteration and end, for names
\* containing multi-byte characters and ending in a non-alphanumeric
\* character too.
C23_CleaningTerminates ==
  (found # None /\ found.v.op = "clean_scheme_name") =>
    found.v.result # Diverges

(***************************************************************************)
(* Properties of VirtualTable::add_record                                  *)
(***************************************************************************)
\* the places of name_index (key and place in the key's list) that hold the
\* position p
places_of(p) ==
  {<<k, i>> \in UNION {{k} \X DOMAIN table.name_index[k] :
                         k \in DOMAIN table.name_index} :
     table.name_index[k][i] = p}

\* C24: after any sequence of add_record calls, name_index partitions the
\* positions 0..data.len()-1: every position is in exactly one list, the list
\* under key k holds in ascending order exactly the positions whose record has
\* the canonical name k, and no stored position is out of range of data.
C24_NameIndexPartitionsPositions ==
  LET n == Len(table.data)
      idx == table.name_index
  IN /\ \A k \in DOMAIN idx :
          /\ \A i \in DOMAIN idx[k] :
               /\ idx[k][i] \in 0..(n - 1)
               /\ canonical_name(table.data[idx[k][i] + 1]) = k
          /\ \A i, j \in DOMAIN idx[k] : i < j => idx[k][i] < idx[k][j]
     /\ \A p \in 0..(n - 1) :
          /\ Cardinality(places_of(p)) = 1
          /\ canonical_name(table.data[p + 1]) \in DOMAIN idx
          /\ \E i \in DOMAIN idx[canonical_name(table.data[p + 1])] :
               idx[canonical_name(table.data[p + 1])][i] = p

\* C24 witness: three add_record calls, the first and the third with names of
\* one canonical name written differently, the second with another name
C24_Witness ==
  /\ Len(table.data) = 3
  /\ table.data[1].scheme_name # table.data[3].scheme_name
  /\ canonical_name(table.data[1]) = canonical_name(table.data[3])
  /\ canonical_name(table.data[1]) # canonical_name(table.data[2])
  /\ table.name_index[canonical_name(table.data[1])] = <<0, 2>>

(***************************************************************************)
(* Properties of the server, continued                                     *)
(***************************************************************************)
\* upload_excel is about to answer with status success: its run returned Ok
\* and its call of refresh_virtual_table has returned
upload_succeeds ==
  run[1].pc = "refresh" /\ refresh["upload"].pc = "done"

\* C25: when upload_excel answers with status success, the index behind the
\* lock is a build that read the store after the upload's records were
\* persisted: it holds a record of every fund row the store held when the
\* run returned, so a search after the response can find the uploaded funds.
C25_SuccessMeansIndexRefreshed ==
  upload_succeeds =>
    \A f \in run[1].end_funds :
      /\ \E row \in rows_read(table_build) : row.fund_id = Some(f.id)
      /\ \E i \in DOMAIN table.data : table.data[i].fund_id = Some(f.id)

(***************************************************************************)
(* SpecConcurrent: two upload requests served at the same time.  Nothing   *)
(* in upload_excel keeps a second request from running while the first is  *)
(* in progress; each run has its own connection and every statement is a   *)
(* transaction of its own, so the runs interleave at their awaits.         *)
(***************************************************************************)
ConcurrentWorkbooks ==
  { <<Sheet("Equity", Some(<<HeaderRow, Row_A, Row_AB>>))>>,
    <<Sheet("Equity", Some(<<HeaderRow, Row_AGrowth>>))>> }

NextConcurrent ==
  \E r \in RunIds :
    \/ \E sheets \in ConcurrentWorkbooks, ok \in BOOLEAN :
         open_workbook(r, sheets, ok)
    \/ \E ok \in BOOLEAN : connect_and_extract(r, ok)
    \/ \E ok \in BOOLEAN : execute_update(r, ok)
    \/ \E ok \in BOOLEAN : execute_insert(r, ok)
    \/ run_returns(r)

SpecConcurrent == InitIngest /\ [][NextConcurrent]_vars

\* the events of a run's log that are an INSERT of this cleaned name which
\* the store took or refused for the uniqueness constraint (every INSERT
\* follows an UPDATE of the same name that affected no row)
inserts_of(st, cleaned_scheme_name) ==
  {i \in DOMAIN st.log :
     /\ st.log[i].op = "insert"
     /\ st.log[i].outcome \in {"inserted", "unique"}
     /\ clean_scheme_name(st.funds[st.log[i].idx].scheme_name) = cleaned_scheme_name}

\* the run went on after the event i of its log: to its next record, or,
\* after the last record, to return Ok with its count
went_on(st, i) ==
  LET k == st.log[i].idx
  IN IF k = Len(st.funds)
       THEN st.pc = "done" /\ st.result = Some(Ok(st.inserted))
     ELSE IF i = Len(st.log)
       THEN st.pc = "update" /\ st.idx = k + 1
     ELSE st.log[i + 1].idx = k + 1

\* C26: for every interleaving of two concurrent ingestion runs, the funds
\* table never holds two rows of one scheme_name; when both runs saw no row
\* updated for one cleaned name and both attempted the INSERT, exactly one
\* row was created, and the run whose INSERT was refused went on with its
\* remaining records.
C26_ConcurrentRunsOneRowPerName ==
  /\ \A x, y \in funds : x.scheme_name = y.scheme_name => x = y
  /\ \A r, q \in RunIds :
       r # q =>
         \A row \in funds :
           \A i \in inserts_of(run[r], row.scheme_name),
              j \in inserts_of(run[q], row.scheme_name) :
             /\ {run[r].log[i].outcome, run[q].log[j].outcome}
                  = {"inserted", "unique"}
             /\ Cardinality({x \in funds : x.scheme_name = row.scheme_name}) = 1
  /\ \A r \in RunIds :
       \A i \in DOMAIN run[r].log :
         run[r].log[i].outcome = "unique" => went_on(run[r], i)

\* C26 witness: both runs saw no row updated for the cleaned name of their
\* first record and attempted the INSERT; one created the row, the other was
\* refused and then persisted its second record, and both returned Ok
C26_Witness ==
  \E r, q \in RunIds :
    /\ r # q
    /\ run[r].pc = "done" /\ run[r].result.v.ok
    /\ run[q].pc = "done" /\ run[q].result.v.ok
    /\ Len(run[r].log) >= 2 /\ Len(run[q].log) >= 3
    /\ run[r].log[2] = event("insert", 1, "inserted")
    /\ run[q].log[2] = event("insert", 1, "unique")
    /\ clean_scheme_name(run[r].funds[1].scheme_name)
         = clean_scheme_name(run[q].funds[1].scheme_name)
    /\ run[r].funds[1].scheme_name # run[q].funds[1].scheme_name
    /\ counted(run[q].log[Len(run[q].log)])

=============================================================================
